---- MODULE Spec2Model ----
(***************************************************************************)
(* Blue/green deployment controller of                                     *)
(* src/migration/deployment/blue_green_deployment.py:                      *)
(* TrafficManager, DeploymentMonitor and BlueGreenDeploymentManager.       *)
(*                                                                         *)
(* Spec     one deployment run (start_deployment) of a manager built by    *)
(*          its constructor, with the default rollback triggers.           *)
(* SpecMon  a DeploymentMonitor on its own: record_metrics and             *)
(*          should_rollback called while the clock advances, for a         *)
(*          trigger list drawn from TriggerConfigs.                        *)
(*                                                                         *)
(* Times are seconds on the wall clock (datetime.now / time.time).         *)
(* Percentages and metric values are integers; the floats of the source    *)
(* only ever hold these integral values in the cases modelled.             *)
(***************************************************************************)
EXTENDS Integers, Sequences, FiniteSets, TLC

VARIABLES
    pc,                    \* position of the coordinating task in start_deployment
    current_phase,         \* BlueGreenDeploymentManager.current_phase
    deployment_status,     \* BlueGreenDeploymentManager.deployment_status
    deployment_start_time, \* BlueGreenDeploymentManager.deployment_start_time
    deployment_log,        \* BlueGreenDeploymentManager.deployment_log
    current_split,         \* TrafficManager.current_split
    backend,               \* weights last applied to the HAProxy and Nginx targets
    rollback_triggers,     \* DeploymentMonitor.rollback_triggers
    metrics_history,       \* DeploymentMonitor.metrics_history
    alerts,                \* alerts delivered to DeploymentMonitor.alert_callbacks
    now,                   \* the wall clock
    start_time,            \* _monitor_phase: start_time of the running monitor loop
    decision,              \* value returned by the last should_rollback call
    prev_decision,         \* value the call before it returned, if made on the same history
    decision_time,         \* the clock when the last should_rollback call was made
    rollback_reason,       \* execute_rollback: the reason argument
    rollback_result,       \* value returned by execute_rollback
    result,                \* value returned by start_deployment
    split_calls,           \* every set_traffic_split call made so far, with its outcome
    phase_trace,           \* every value current_phase has held, in order
    faults,                \* environment failures observed so far
    phase_method,          \* the phase whose _execute_phase_<n> method the task is in
    status_report,         \* value returned by get_deployment_status, if it was the last call
    flight,                \* per task: where it stands in set_traffic_split, and with which arguments
    running                \* the task the event loop is executing ("none": every task is suspended)

vars == <<pc, current_phase, deployment_status, deployment_start_time,
          deployment_log, current_split, backend, rollback_triggers,
          metrics_history, alerts, now, start_time, decision, prev_decision, decision_time,
          rollback_reason, rollback_result, result, split_calls, phase_trace,
          faults, phase_method, status_report, flight, running>>

controller_vars_but_pc ==
    <<current_phase, deployment_status, deployment_start_time, deployment_log,
      current_split, backend, alerts, start_time, rollback_reason,
      rollback_result, result, split_calls, phase_trace, faults, phase_method>>

controller_vars == <<pc, current_phase, deployment_status, deployment_start_time,
                     deployment_log, current_split, backend, alerts, start_time,
                     rollback_reason, rollback_result, result, split_calls,
                     phase_trace, faults, phase_method>>

\* ------------------------------------------------------------------ bounds

\* Ticks of a run that may be followed by a sleep shorter than LongSleep.
MaxShortTicks == 4

\* SpecMon: snapshots recorded, and the latest clock value.
MaxMonHistory == 5
MaxMonClock == 240

\* SpecTM: set_traffic_split calls made on the TrafficManager.
MaxDirectCalls == 2

\* SpecFlight: set_traffic_split calls started by the two tasks together.
MaxFlights == 3

\* SpecCap: record_metrics calls made on the DeploymentMonitor.
MaxRecorded == 1002

\* ------------------------------------------------------------------ enums

PREPARATION == "preparation"
PHASE_1_VALIDATION == "phase_1_validation"
PHASE_2_LIMITED == "phase_2_limited"
PHASE_3_AB_TEST == "phase_3_ab_test"
PHASE_4_MAJORITY == "phase_4_majority"
PHASE_5_COMPLETE == "phase_5_complete"
ROLLBACK == "rollback"

DeploymentPhase == <<PREPARATION, PHASE_1_VALIDATION, PHASE_2_LIMITED,
                     PHASE_3_AB_TEST, PHASE_4_MAJORITY, PHASE_5_COMPLETE, ROLLBACK>>

PENDING == "pending"
IN_PROGRESS == "in_progress"
COMPLETED == "completed"
FAILED == "failed"
ROLLING_BACK == "rolling_back"
ROLLED_BACK == "rolled_back"

DeploymentStatus == {PENDING, IN_PROGRESS, COMPLETED, FAILED, ROLLING_BACK, ROLLED_BACK}

\* Position of a phase in the enumeration.
PhaseIndex(p) == CHOOSE i \in 1..Len(DeploymentPhase) : DeploymentPhase[i] = p

\* ------------------------------------------------------------------ TrafficManager

\* TrafficManager.__init__: all traffic on blue.
InitialSplit == [blue |-> 100, green |-> 0]

\* No weight has been sent to a target yet.
NoWeights == [blue |-> 0, green |-> 0]

Max(a, b) == IF a >= b THEN a ELSE b

\* None, for deployment_start_time and the values computed from it.
None == -1

\* _configure_haproxy_weights: the weights set on the blue and green servers.
configure_haproxy_weights(blue_pct, green_pct) ==
    [blue |-> Max(1, blue_pct), green |-> Max(1, green_pct)]

\* _configure_nginx_upstream: the weights of blue_config and green_config.
configure_nginx_upstream(blue_pct, green_pct) ==
    [blue |-> Max(1, blue_pct), green |-> Max(1, green_pct)]

\* What configuring the two targets can do: both succeed, or the HAProxy call
\* raises (nothing sent), or the Nginx call raises (HAProxy already configured).
RoutingOutcomes == {"ok", "haproxy_error", "nginx_error"}

\* set_traffic_split without the check of the sum.
set_traffic_split_unchecked(split, be, blue_percentage, green_percentage, outcome) ==
    IF outcome = "haproxy_error"
    THEN [ret |-> "false", split |-> split, backend |-> be]
    ELSE IF outcome = "nginx_error"
    THEN [ret |-> "false", split |-> split,
          backend |-> [be EXCEPT !.haproxy =
                          configure_haproxy_weights(blue_percentage, green_percentage)]]
    ELSE [ret |-> "true",
          split |-> [blue |-> blue_percentage, green |-> green_percentage],
          backend |-> [haproxy |-> configure_haproxy_weights(blue_percentage, green_percentage),
                       nginx |-> configure_nginx_upstream(blue_percentage, green_percentage)]]

\* set_traffic_split refusing a split that is already in force.
set_traffic_split_rejecting_repeat(split, be, blue_percentage, green_percentage, outcome) ==
    IF blue_percentage + green_percentage # 100
    THEN [ret |-> "raise", split |-> split, backend |-> be]
    ELSE IF split = [blue |-> blue_percentage, green |-> green_percentage]
            /\ be.haproxy # NoWeights
    THEN [ret |-> "false", split |-> split, backend |-> be]
    ELSE set_traffic_split_unchecked(split, be, blue_percentage, green_percentage, outcome)

\* set_traffic_split recording the split before the targets are configured.
set_traffic_split_recording_first(split, be, blue_percentage, green_percentage, outcome) ==
    IF blue_percentage + green_percentage # 100
    THEN [ret |-> "raise", split |-> split, backend |-> be]
    ELSE [set_traffic_split_unchecked(split, be, blue_percentage, green_percentage,
                                      outcome)
             EXCEPT !.split = [blue |-> blue_percentage, green |-> green_percentage]]

\* set_traffic_split, with both stats_url and nginx_api_url configured.
\* ret is "raise" (ValueError), "true" or "false".
set_traffic_split(split, be, blue_percentage, green_percentage, outcome) ==
    IF blue_percentage + green_percentage # 100
    THEN [ret |-> "raise", split |-> split, backend |-> be]
    ELSE IF outcome = "haproxy_error"
    THEN [ret |-> "false", split |-> split, backend |-> be]
    ELSE IF outcome = "nginx_error"
    THEN [ret |-> "false", split |-> split,
          backend |-> [be EXCEPT !.haproxy =
                          configure_haproxy_weights(blue_percentage, green_percentage)]]
    ELSE [ret |-> "true",
          split |-> [blue |-> blue_percentage, green |-> green_percentage],
          backend |-> [haproxy |-> configure_haproxy_weights(blue_percentage, green_percentage),
                       nginx |-> configure_nginx_upstream(blue_percentage, green_percentage)]]

\* get_current_split answering with the split of the constructor.
get_current_split_initial == InitialSplit

\* get_current_split: a copy of the recorded split.
get_current_split == current_split

\* ------------------------------------------------------------------ DeploymentMonitor

\* RollbackTrigger(metric_name, threshold, duration_seconds, comparison, enabled=True)
RollbackTrigger(metric_name, threshold, duration_seconds, comparison) ==
    [metric_name |-> metric_name, threshold |-> threshold,
     duration_seconds |-> duration_seconds, comparison |-> comparison,
     enabled |-> TRUE]

\* The triggers BlueGreenDeploymentManager.__init__ installs.
DefaultTriggers ==
    << RollbackTrigger("error_rate", 10, 300, "gt"),
       RollbackTrigger("response_time_p95", 5000, 180, "gt"),
       RollbackTrigger("success_rate", 90, 120, "lt"),
       RollbackTrigger("throughput", 50, 240, "lt") >>

\* Capacity of the metrics history.
HistoryCap == 1000

\* The last n elements of s (s[-n:]).
LastN(s, n) == IF Len(s) <= n THEN s ELSE SubSeq(s, Len(s) - n + 1, Len(s))

\* record_metrics keeping the first HistoryCap entries.
record_metrics_keeping_oldest(history, metrics) ==
    LET appended == Append(history, metrics)
    IN  IF Len(appended) > HistoryCap THEN SubSeq(appended, 1, HistoryCap) ELSE appended

\* record_metrics: append, then keep the last HistoryCap entries.
record_metrics(history, metrics) ==
    LET appended == Append(history, metrics)
    IN  IF Len(appended) > HistoryCap THEN LastN(appended, HistoryCap) ELSE appended

\* trigger.metric_name.replace('.', '_') for the metric names of the model.
attribute_name(metric_name) ==
    CASE metric_name = "error.rate" -> "error_rate"
      [] metric_name = "success.rate" -> "success_rate"
      [] OTHER -> metric_name

Abs(x) == IF x < 0 THEN -x ELSE x

\* _check_threshold_violation answering True for a comparison it does not know.
check_threshold_violation_defaulting_true(value, threshold, comparison) ==
    CASE comparison = "gt" -> value > threshold
      [] comparison = "lt" -> value < threshold
      [] comparison = "eq" -> 1000 * Abs(value - threshold) < 1
      [] OTHER -> TRUE

\* _check_threshold_violation; for 'eq', abs(value - threshold) < 0.001.
check_threshold_violation(value, threshold, comparison) ==
    CASE comparison = "gt" -> value > threshold
      [] comparison = "lt" -> value < threshold
      [] comparison = "eq" -> 1000 * Abs(value - threshold) < 1
      [] OTHER -> FALSE

\* should_rollback with m.timestamp > cutoff_time.
recent_metrics_after_cutoff(history, trigger, current_time) ==
    { i \in 1..Len(history) :
        history[i].timestamp > current_time - trigger.duration_seconds }

\* should_rollback without the cutoff: every retained snapshot counts.
recent_metrics_unfiltered(history, trigger, current_time) == 1..Len(history)

\* should_rollback: the snapshots of a trigger's window, as indices of the history
\* (m.timestamp >= current_time - duration_seconds).
recent_metrics(history, trigger, current_time) ==
    { i \in 1..Len(history) :
        history[i].timestamp >= current_time - trigger.duration_seconds }

\* should_rollback: a snapshot counts as a violation when it carries the metric
\* (getattr(...) is not None) and the threshold check is true.
is_violation(metric, trigger) ==
    LET attr == attribute_name(trigger.metric_name)
    IN  /\ attr \in DOMAIN metric
        /\ check_threshold_violation(metric[attr], trigger.threshold, trigger.comparison)

violation_count(history, trigger, current_time) ==
    Cardinality({ i \in recent_metrics(history, trigger, current_time) :
                    is_violation(history[i], trigger) })

\* should_rollback with violation_percentage > 80.
reaches_ratio_strictly(count, size) == count * 100 > 80 * size

\* should_rollback: violation_percentage >= 80, where violation_percentage is
\* violation_count / len(recent_metrics) * 100 (exact for every window of at
\* most HistoryCap snapshots).
reaches_ratio(count, size) == count * 100 >= 80 * size

\* The reason string of a rollback decision, by its parts.
trigger_reason(trigger) ==
    [text |-> "Metric violated threshold",
     metric_name |-> trigger.metric_name,
     threshold |-> trigger.threshold,
     duration_seconds |-> trigger.duration_seconds]

\* should_rollback without the test of trigger.enabled.
RECURSIVE evaluate_triggers_ignoring_enabled(_, _, _, _)
evaluate_triggers_ignoring_enabled(history, triggers, current_time, i) ==
    IF i > Len(triggers)
    THEN [should_rollback |-> FALSE]
    ELSE LET trigger == triggers[i]
             recent == recent_metrics(history, trigger, current_time)
             count == violation_count(history, trigger, current_time)
         IN  IF recent = {}
             THEN evaluate_triggers_ignoring_enabled(history, triggers, current_time, i + 1)
             ELSE IF reaches_ratio(count, Cardinality(recent))
             THEN [should_rollback |-> TRUE,
                   reason |-> trigger_reason(trigger),
                   trigger |-> i,
                   violation_percentage |->
                       [violations |-> count, samples |-> Cardinality(recent)]]
             ELSE evaluate_triggers_ignoring_enabled(history, triggers, current_time, i + 1)

\* should_rollback: the loop over the triggers, from trigger i on.
RECURSIVE evaluate_triggers(_, _, _, _)
evaluate_triggers(history, triggers, current_time, i) ==
    IF i > Len(triggers)
    THEN [should_rollback |-> FALSE]
    ELSE LET trigger == triggers[i]
             recent == recent_metrics(history, trigger, current_time)
             count == violation_count(history, trigger, current_time)
         IN  IF ~trigger.enabled
             THEN evaluate_triggers(history, triggers, current_time, i + 1)
             ELSE IF recent = {}
             THEN evaluate_triggers(history, triggers, current_time, i + 1)
             ELSE IF reaches_ratio(count, Cardinality(recent))
             THEN [should_rollback |-> TRUE,
                   reason |-> trigger_reason(trigger),
                   trigger |-> i,
                   violation_percentage |->
                       [violations |-> count, samples |-> Cardinality(recent)]]
             ELSE evaluate_triggers(history, triggers, current_time, i + 1)

\* should_rollback, evaluated when the clock reads current_time.
should_rollback(history, triggers, current_time) ==
    IF history = <<>>
    THEN [should_rollback |-> FALSE, reason |-> [text |-> "No metrics available"]]
    ELSE evaluate_triggers(history, triggers, current_time, 1)

\* No should_rollback call has been made.
NoDecision == [evaluated |-> FALSE]

\* ------------------------------------------------------------------ BlueGreenDeploymentManager

\* start_deployment without its call of _execute_phase_1_validation.
NextPhase_skipping(p) ==
    IF p = PREPARATION THEN PHASE_2_LIMITED ELSE DeploymentPhase[PhaseIndex(p) + 1]

\* The phase the run enters after phase p has been monitored to its end.
NextPhase(p) == DeploymentPhase[PhaseIndex(p) + 1]

\* The forward, traffic-bearing phases.
ForwardPhases == {PHASE_1_VALIDATION, PHASE_2_LIMITED, PHASE_3_AB_TEST,
                  PHASE_4_MAJORITY, PHASE_5_COMPLETE}

\* _execute_phase_5_complete repeating the split of phase 4.
PhaseSplit_majority_twice(p) ==
    CASE p = PHASE_1_VALIDATION -> [blue |-> 95, green |-> 5]
      [] p = PHASE_2_LIMITED -> [blue |-> 80, green |-> 20]
      [] p = PHASE_3_AB_TEST -> [blue |-> 50, green |-> 50]
      [] p = PHASE_4_MAJORITY -> [blue |-> 20, green |-> 80]
      [] p = PHASE_5_COMPLETE -> [blue |-> 20, green |-> 80]

\* _execute_phase_<n>: the arguments of the phase's set_traffic_split call.
PhaseSplit(p) ==
    CASE p = PHASE_1_VALIDATION -> [blue |-> 95, green |-> 5]
      [] p = PHASE_2_LIMITED -> [blue |-> 80, green |-> 20]
      [] p = PHASE_3_AB_TEST -> [blue |-> 50, green |-> 50]
      [] p = PHASE_4_MAJORITY -> [blue |-> 20, green |-> 80]
      [] p = PHASE_5_COMPLETE -> [blue |-> 0, green |-> 100]

\* _execute_phase_<n>: the duration_seconds passed to _monitor_phase.
PhaseDuration(p) ==
    CASE p = PHASE_1_VALIDATION -> 600
      [] p = PHASE_2_LIMITED -> 900
      [] p = PHASE_3_AB_TEST -> 1200
      [] p = PHASE_4_MAJORITY -> 900
      [] p = PHASE_5_COMPLETE -> 1800

\* _monitor_phase: seconds slept between two checks.
monitoring_interval == 30

\* How long it can take from one check of the loop condition to the next:
\* asyncio.sleep(monitoring_interval) returns after the interval or later.
SleepDelays == {monitoring_interval,
                DefaultTriggers[1].duration_seconds,
                PhaseDuration(PHASE_5_COMPLETE)}

LongSleep == PhaseDuration(PHASE_5_COMPLETE)

\* The metric values a sample can carry (the metrics source is external to the
\* controller): all within thresholds, error rate above 10, success rate below 90.
MetricSamples ==
    { [response_time_p95 |-> 200, error_rate |-> 2, throughput |-> 150, success_rate |-> 99],
      [response_time_p95 |-> 200, error_rate |-> 15, throughput |-> 150, success_rate |-> 99],
      [response_time_p95 |-> 200, error_rate |-> 2, throughput |-> 150, success_rate |-> 85] }

\* _collect_deployment_metrics: the snapshot taken at time t. The fields no
\* trigger of the model reads (active_connections, memory_usage, cpu_usage)
\* are left out.
collect_deployment_metrics(sample, phase, green_traffic_percentage, t) ==
    [timestamp |-> t, phase |-> phase,
     traffic_percentage |-> green_traffic_percentage,
     response_time_p95 |-> sample.response_time_p95,
     error_rate |-> sample.error_rate,
     throughput |-> sample.throughput,
     success_rate |-> sample.success_rate]

\* What the preparation checks can find, in the order they are made.
PreparationOutcomes == {"green_unhealthy", "blue_unhealthy", "row_count_mismatch", "ok"}

\* _log_deployment_event: the entry appended to deployment_log.
log_entry(t, phase, event, details) ==
    [timestamp |-> t, phase |-> phase, event |-> event, details |-> details]

\* The record kept of a set_traffic_split call: its arguments, what the targets
\* answered, what it returned, the split recorded when it returned and the
\* status it was made under.
split_call(blue_percentage, green_percentage, outcome, r) ==
    [blue |-> blue_percentage, green |-> green_percentage, outcome |-> outcome,
     ret |-> r.ret, split |-> r.split, status |-> deployment_status]

\* The two callers of TrafficManager.set_traffic_split that can be alive at once:
\* the task running start_deployment and an execute_rollback invoked by an operator.
FlightTasks == {"start_deployment", "execute_rollback"}

\* A task that is not inside set_traffic_split.
Outside == [pos |-> "outside", blue |-> 0, green |-> 0]

\* get_deployment_status has not been called since the last step.
NoReport == [polled |-> FALSE]

\* self.current_phase = p, as seen in the trace of phases.
enter_phase(p) ==
    /\ current_phase' = p
    /\ phase_trace' = IF p = current_phase THEN phase_trace ELSE Append(phase_trace, p)

\* BlueGreenDeploymentManager.__init__ (and those of its parts).
Init ==
    /\ pc = "constructed"
    /\ current_phase = PREPARATION
    /\ deployment_status = PENDING
    /\ deployment_start_time = None
    /\ deployment_log = <<>>
    /\ current_split = InitialSplit
    /\ backend = [haproxy |-> NoWeights, nginx |-> NoWeights]
    /\ rollback_triggers = DefaultTriggers
    /\ metrics_history = <<>>
    /\ alerts = <<>>
    /\ now = 0
    /\ start_time = -1
    /\ decision = NoDecision
    /\ prev_decision = NoDecision
    /\ decision_time = -1
    /\ rollback_reason = [text |-> "none"]
    /\ rollback_result = "none"
    /\ result = "none"
    /\ split_calls = <<>>
    /\ phase_trace = <<PREPARATION>>
    /\ faults = {}
    /\ phase_method = PREPARATION
    /\ status_report = NoReport
    /\ flight = [t \in FlightTasks |-> Outside]
    /\ running = "none"

\* start_deployment, up to the first phase.
start_deployment ==
    /\ status_report' = NoReport
    /\ UNCHANGED <<flight, running>>
    /\ UNCHANGED phase_method
    /\ pc = "constructed"
    /\ deployment_start_time' = now
    /\ deployment_status' = IN_PROGRESS
    /\ pc' = "preparation"
    /\ UNCHANGED <<current_phase, deployment_log, current_split, backend,
                   rollback_triggers, metrics_history, alerts, now, start_time,
                   decision, prev_decision, decision_time, rollback_reason, rollback_result,
                   result, split_calls, phase_trace, faults>>

\* _execute_phase_preparation and, when it returns False, start_deployment's return.
execute_phase_preparation ==
    /\ status_report' = NoReport
    /\ UNCHANGED <<flight, running>>
    /\ UNCHANGED phase_method
    /\ pc = "preparation"
    /\ enter_phase(PREPARATION)
    /\ \E outcome \in PreparationOutcomes :
          IF outcome = "ok"
          THEN /\ deployment_log' = Append(deployment_log,
                      log_entry(now, PREPARATION, "Preparation phase completed",
                                [green_health |-> "healthy", blue_health |-> "healthy"]))
               /\ pc' = "phase"
               /\ UNCHANGED <<result, faults>>
          ELSE /\ pc' = "returned"
               /\ result' = "false"
               /\ faults' = faults \cup {outcome}
               /\ UNCHANGED deployment_log
    /\ UNCHANGED <<deployment_status, deployment_start_time, current_split, backend,
                   rollback_triggers, metrics_history, alerts, now, start_time,
                   decision, prev_decision, decision_time, rollback_reason, rollback_result,
                   split_calls>>

\* A phase method that starts with an empty metrics history.
execute_phase_clearing_history ==
    /\ status_report' = NoReport
    /\ UNCHANGED <<flight, running>>
    /\ pc = "phase"
    /\ metrics_history' = <<>>
    /\ LET p == NextPhase(phase_method)
       IN  /\ enter_phase(p)
           /\ phase_method' = p
           /\ \E outcome \in RoutingOutcomes :
                LET r == set_traffic_split(current_split, backend,
                                           PhaseSplit(p).blue, PhaseSplit(p).green, outcome)
                IN  /\ current_split' = r.split
                    /\ backend' = r.backend
                    /\ split_calls' = Append(split_calls,
                          split_call(PhaseSplit(p).blue, PhaseSplit(p).green, outcome, r))
                    /\ IF r.ret = "true"
                       THEN /\ pc' = "monitor"
                            /\ start_time' = now
                            /\ UNCHANGED <<result, faults>>
                       ELSE /\ pc' = "returned"
                            /\ result' = "false"
                            /\ faults' = faults \cup {"routing"}
                            /\ UNCHANGED start_time
    /\ UNCHANGED <<deployment_status, deployment_start_time, deployment_log,
                   rollback_triggers, alerts, now,
                   decision, prev_decision, decision_time, rollback_reason, rollback_result>>

\* _execute_phase_1_validation .. _execute_phase_5_complete, up to the call of
\* _monitor_phase; when set_traffic_split returns False, start_deployment returns.
execute_phase ==
    /\ status_report' = NoReport
    /\ UNCHANGED <<flight, running>>
    /\ pc = "phase"
    /\ LET p == NextPhase(phase_method)
       IN  /\ enter_phase(p)
           /\ phase_method' = p
           /\ \E outcome \in RoutingOutcomes :
                LET r == set_traffic_split(current_split, backend,
                                           PhaseSplit(p).blue, PhaseSplit(p).green, outcome)
                IN  /\ current_split' = r.split
                    /\ backend' = r.backend
                    /\ split_calls' = Append(split_calls,
                          split_call(PhaseSplit(p).blue, PhaseSplit(p).green, outcome, r))
                    /\ IF r.ret = "true"
                       THEN /\ pc' = "monitor"
                            /\ start_time' = now
                            /\ UNCHANGED <<result, faults>>
                       ELSE /\ pc' = "returned"
                            /\ result' = "false"
                            /\ faults' = faults \cup {"routing"}
                            /\ UNCHANGED start_time
    /\ UNCHANGED <<deployment_status, deployment_start_time, deployment_log,
                   rollback_triggers, metrics_history, alerts, now,
                   decision, prev_decision, decision_time, rollback_reason, rollback_result>>

\* _monitor_phase noting a rollback decision and going on to asyncio.sleep.
monitor_tick_deferring_rollback ==
    /\ status_report' = NoReport
    /\ UNCHANGED <<flight, running>>
    /\ UNCHANGED phase_method
    /\ pc = "monitor"
    /\ now - start_time < PhaseDuration(phase_method)
    /\ \E sample \in MetricSamples :
          LET metrics == collect_deployment_metrics(sample, current_phase,
                              PhaseSplit(phase_method).green, now)
              history == record_metrics(metrics_history, metrics)
              d == should_rollback(history, rollback_triggers, now)
          IN  /\ metrics_history' = history
              /\ decision' = d
              /\ prev_decision' = NoDecision
              /\ decision_time' = now
              /\ IF d.should_rollback
                 THEN /\ pc' = "sleep"
                      /\ rollback_reason' = d.reason
                 ELSE /\ pc' = "sleep"
                      /\ UNCHANGED rollback_reason
    /\ UNCHANGED <<current_phase, deployment_status, deployment_start_time,
                   deployment_log, current_split, backend, rollback_triggers,
                   alerts, now, start_time, rollback_result, result, split_calls,
                   phase_trace, faults>>

\* _monitor_phase: one pass of the loop body, up to asyncio.sleep or to the
\* call of execute_rollback.
monitor_tick ==
    /\ status_report' = NoReport
    /\ UNCHANGED <<flight, running>>
    /\ UNCHANGED phase_method
    /\ pc = "monitor"
    /\ now - start_time < PhaseDuration(phase_method)
    /\ \E sample \in MetricSamples :
          LET metrics == collect_deployment_metrics(sample, current_phase,
                              PhaseSplit(phase_method).green, now)
              history == record_metrics(metrics_history, metrics)
              d == should_rollback(history, rollback_triggers, now)
          IN  /\ metrics_history' = history
              /\ decision' = d
              /\ prev_decision' = NoDecision
              /\ decision_time' = now
              /\ IF d.should_rollback
                 THEN /\ pc' = "rollback"
                      /\ rollback_reason' = d.reason
                 ELSE /\ pc' = "sleep"
                      /\ UNCHANGED rollback_reason
    /\ UNCHANGED <<current_phase, deployment_status, deployment_start_time,
                   deployment_log, current_split, backend, rollback_triggers,
                   alerts, now, start_time, rollback_result, result, split_calls,
                   phase_trace, faults>>

\* _monitor_phase: asyncio.sleep(monitoring_interval), back to the loop condition.
monitor_sleep ==
    /\ status_report' = NoReport
    /\ UNCHANGED <<flight, running>>
    /\ pc = "sleep"
    /\ \E d \in SleepDelays :
          /\ d = LongSleep \/ Len(metrics_history) <= MaxShortTicks
          /\ now' = now + d
    /\ pc' = "monitor"
    /\ UNCHANGED <<controller_vars_but_pc, rollback_triggers, metrics_history,
                   decision, prev_decision, decision_time>>

\* start_deployment that does not return once the last phase's loop has ended.
monitor_done_never_completing ==
    /\ status_report' = NoReport
    /\ UNCHANGED <<flight, running>>
    /\ UNCHANGED phase_method
    /\ pc = "monitor"
    /\ phase_method # PHASE_5_COMPLETE
    /\ ~(now - start_time < PhaseDuration(phase_method))
    /\ IF phase_method = PHASE_5_COMPLETE
       THEN /\ deployment_status' = COMPLETED
            /\ result' = "true"
            /\ pc' = "returned"
       ELSE /\ pc' = "phase"
            /\ UNCHANGED <<deployment_status, result>>
    /\ UNCHANGED <<current_phase, deployment_start_time, deployment_log,
                   current_split, backend, rollback_triggers, metrics_history,
                   alerts, now, start_time, decision, prev_decision, decision_time,
                   rollback_reason, rollback_result, split_calls, phase_trace,
                   faults>>

\* _monitor_phase returning True whether or not the duration has elapsed.
monitor_done_without_waiting ==
    /\ status_report' = NoReport
    /\ UNCHANGED <<flight, running>>
    /\ UNCHANGED phase_method
    /\ pc = "monitor"
    /\ IF phase_method = PHASE_5_COMPLETE
       THEN /\ deployment_status' = COMPLETED
            /\ result' = "true"
            /\ pc' = "returned"
       ELSE /\ pc' = "phase"
            /\ UNCHANGED <<deployment_status, result>>
    /\ UNCHANGED <<current_phase, deployment_start_time, deployment_log,
                   current_split, backend, rollback_triggers, metrics_history,
                   alerts, now, start_time, decision, prev_decision, decision_time,
                   rollback_reason, rollback_result, split_calls, phase_trace,
                   faults>>

\* start_deployment setting COMPLETED when the Majority phase returns True,
\* before the Complete phase is run.
monitor_done_completes_early ==
    /\ status_report' = NoReport
    /\ UNCHANGED <<flight, running>>
    /\ UNCHANGED phase_method
    /\ pc = "monitor"
    /\ ~(now - start_time < PhaseDuration(phase_method))
    /\ IF phase_method = PHASE_5_COMPLETE
       THEN /\ deployment_status' = COMPLETED
            /\ result' = "true"
            /\ pc' = "returned"
       ELSE /\ pc' = "phase"
            /\ deployment_status' =
                  IF phase_method = PHASE_4_MAJORITY THEN COMPLETED ELSE deployment_status
            /\ UNCHANGED result
    /\ UNCHANGED <<current_phase, deployment_start_time, deployment_log,
                   current_split, backend, rollback_triggers, metrics_history,
                   alerts, now, start_time, decision, prev_decision, decision_time,
                   rollback_reason, rollback_result, split_calls, phase_trace,
                   faults>>

\* _monitor_phase: the loop condition is false, the phase returns True; after
\* the last phase start_deployment sets COMPLETED and returns True.
monitor_done ==
    /\ status_report' = NoReport
    /\ UNCHANGED <<flight, running>>
    /\ UNCHANGED phase_method
    /\ pc = "monitor"
    /\ ~(now - start_time < PhaseDuration(phase_method))
    /\ IF phase_method = PHASE_5_COMPLETE
       THEN /\ deployment_status' = COMPLETED
            /\ result' = "true"
            /\ pc' = "returned"
       ELSE /\ pc' = "phase"
            /\ UNCHANGED <<deployment_status, result>>
    /\ UNCHANGED <<current_phase, deployment_start_time, deployment_log,
                   current_split, backend, rollback_triggers, metrics_history,
                   alerts, now, start_time, decision, prev_decision, decision_time,
                   rollback_reason, rollback_result, split_calls, phase_trace,
                   faults>>

\* execute_rollback without the assignment of ROLLING_BACK.
execute_rollback_begin_no_status ==
    /\ status_report' = NoReport
    /\ UNCHANGED <<flight, running>>
    /\ UNCHANGED phase_method
    /\ pc = "rollback"
    /\ enter_phase(ROLLBACK)
    /\ pc' = "revert"
    /\ UNCHANGED <<deployment_status, deployment_start_time, deployment_log,
                   current_split, backend, rollback_triggers, metrics_history,
                   alerts, now, start_time, decision, prev_decision, decision_time,
                   rollback_reason, rollback_result, result, split_calls, faults>>

\* execute_rollback: status and phase are set on entry.
execute_rollback_begin ==
    /\ status_report' = NoReport
    /\ UNCHANGED <<flight, running>>
    /\ UNCHANGED phase_method
    /\ pc = "rollback"
    /\ deployment_status' = ROLLING_BACK
    /\ enter_phase(ROLLBACK)
    /\ pc' = "revert"
    /\ UNCHANGED <<deployment_start_time, deployment_log, current_split, backend,
                   rollback_triggers, metrics_history, alerts, now, start_time,
                   decision, prev_decision, decision_time, rollback_reason, rollback_result,
                   result, split_calls, faults>>

\* execute_rollback: set_traffic_split(100.0, 0.0); when it returns False,
\* execute_rollback, _monitor_phase and start_deployment return False.
execute_rollback_revert ==
    /\ status_report' = NoReport
    /\ UNCHANGED <<flight, running>>
    /\ UNCHANGED phase_method
    /\ pc = "revert"
    /\ \E outcome \in RoutingOutcomes :
          LET r == set_traffic_split(current_split, backend, 100, 0, outcome)
          IN  /\ current_split' = r.split
              /\ backend' = r.backend
              /\ split_calls' = Append(split_calls,
                    split_call(100, 0, outcome, r))
              /\ IF r.ret = "true"
                 THEN /\ pc' = "verify"
                      /\ UNCHANGED <<rollback_result, result, faults>>
                 ELSE /\ pc' = "returned"
                      /\ rollback_result' = "false"
                      /\ result' = "false"
                      /\ faults' = faults \cup {"revert"}
    /\ UNCHANGED <<current_phase, deployment_status, deployment_start_time,
                   deployment_log, rollback_triggers, metrics_history, alerts, now,
                   start_time, decision, prev_decision, decision_time, rollback_reason,
                   phase_trace>>

\* execute_rollback setting ROLLED_BACK whatever the health check of blue finds.
execute_rollback_verify_ignoring_health ==
    /\ status_report' = NoReport
    /\ UNCHANGED <<flight, running>>
    /\ UNCHANGED phase_method
    /\ pc = "verify"
    /\ \E blue_healthy \in BOOLEAN :
          IF blue_healthy
          THEN /\ deployment_log' = Append(deployment_log,
                      log_entry(now, current_phase, "Rollback completed",
                                [reason |-> rollback_reason,
                                 blue_health |-> "healthy",
                                 rollback_time_seconds |-> now - deployment_start_time]))
               /\ deployment_status' = ROLLED_BACK
               /\ rollback_result' = "true"
               /\ UNCHANGED faults
          ELSE /\ deployment_status' = ROLLED_BACK
               /\ rollback_result' = "true"
               /\ faults' = faults \cup {"blue_unhealthy_after_revert"}
               /\ UNCHANGED deployment_log
    /\ pc' = "returned"
    /\ result' = "false"
    /\ UNCHANGED <<current_phase, deployment_start_time, current_split, backend,
                   rollback_triggers, metrics_history, alerts, now, start_time,
                   decision, prev_decision, decision_time, rollback_reason, split_calls,
                   phase_trace>>

\* execute_rollback: the health check of blue, the log entry and ROLLED_BACK;
\* then _monitor_phase and start_deployment return False.
execute_rollback_verify ==
    /\ status_report' = NoReport
    /\ UNCHANGED <<flight, running>>
    /\ UNCHANGED phase_method
    /\ pc = "verify"
    /\ \E blue_healthy \in BOOLEAN :
          IF blue_healthy
          THEN /\ deployment_log' = Append(deployment_log,
                      log_entry(now, current_phase, "Rollback completed",
                                [reason |-> rollback_reason,
                                 blue_health |-> "healthy",
                                 rollback_time_seconds |-> now - deployment_start_time]))
               /\ deployment_status' = ROLLED_BACK
               /\ rollback_result' = "true"
               /\ UNCHANGED faults
          ELSE /\ rollback_result' = "false"
               /\ faults' = faults \cup {"blue_unhealthy_after_revert"}
               /\ UNCHANGED <<deployment_log, deployment_status>>
    /\ pc' = "returned"
    /\ result' = "false"
    /\ UNCHANGED <<current_phase, deployment_start_time, current_split, backend,
                   rollback_triggers, metrics_history, alerts, now, start_time,
                   decision, prev_decision, decision_time, rollback_reason, split_calls,
                   phase_trace>>

Next ==
    \/ start_deployment
    \/ execute_phase_preparation
    \/ execute_phase
    \/ monitor_tick
    \/ monitor_sleep
    \/ monitor_done
    \/ execute_rollback_begin
    \/ execute_rollback_revert
    \/ execute_rollback_verify

Spec == Init /\ [][Next]_vars

\* A run in which the coordinating task is resumed whenever it can take a step:
\* every probe, routing call and sample returns and asyncio.sleep ends.
SpecLive == Init /\ [][Next]_vars /\ WF_vars(Next)

\* ------------------------------------------------------------------ status and report

\* get_deployment_status.
get_deployment_status ==
    [status |-> deployment_status,
     current_phase |-> current_phase,
     traffic_split |-> get_current_split,
     runtime_seconds |-> IF deployment_start_time # None
                         THEN now - deployment_start_time ELSE None,
     start_time |-> deployment_start_time,
     metrics_count |-> Len(metrics_history),
     log_entries |-> Len(deployment_log)]

\* sum(m.<attr> for m in metrics_history).
RECURSIVE sum_of(_, _)
sum_of(history, attr) ==
    IF history = <<>> THEN 0 ELSE history[1][attr] + sum_of(Tail(history), attr)

\* get_deployment_report: sum / len(metrics_history) as a fraction, 0.0 for an
\* empty history.
average_of(history, attr) ==
    IF history = <<>>
    THEN [num |-> 0, den |-> 1]
    ELSE [num |-> sum_of(history, attr), den |-> Len(history)]

\* _calculate_phase_durations: the loop over the log from entry i on, with the
\* phase being timed ("" for None), its start and the durations found so far.
RECURSIVE phase_durations_loop(_, _, _, _, _)
phase_durations_loop(log, i, phase, phase_start_time, durations) ==
    IF i > Len(log)
    THEN durations
    ELSE LET entry == log[i]
             ended == IF phase # "" /\ entry.phase # phase
                      THEN [p \in DOMAIN durations \cup {phase} |->
                               IF p = phase THEN entry.timestamp - phase_start_time
                               ELSE durations[p]]
                      ELSE durations
         IN  IF entry.phase # phase
             THEN phase_durations_loop(log, i + 1, entry.phase, entry.timestamp, ended)
             ELSE phase_durations_loop(log, i + 1, phase, phase_start_time, ended)

\* _calculate_phase_durations.
calculate_phase_durations ==
    IF Len(deployment_log) < 2
    THEN [p \in {} |-> 0]
    ELSE phase_durations_loop(deployment_log, 1, "", 0, [p \in {} |-> 0])

\* get_deployment_report.
get_deployment_report ==
    [deployment_status |-> get_deployment_status,
     performance_summary |->
        [average_success_rate |-> average_of(metrics_history, "success_rate"),
         average_response_time_p95 |-> average_of(metrics_history, "response_time_p95"),
         total_metrics_collected |-> Len(metrics_history),
         rollback_triggered |-> deployment_status \in {ROLLING_BACK, ROLLED_BACK}],
     phase_durations |-> calculate_phase_durations,
     deployment_log |-> deployment_log,
     final_traffic_split |-> get_current_split]

\* get_deployment_status called from outside the coordinating task, at any
\* point of a run.
poll_deployment_status ==
    /\ status_report' = [polled |-> TRUE, value |-> get_deployment_status]
    /\ UNCHANGED <<flight, running>>
    /\ UNCHANGED <<controller_vars, rollback_triggers, metrics_history, now,
                   decision, prev_decision, decision_time>>

\* A run of start_deployment polled from outside.
PollNext ==
    \/ Next
    \/ poll_deployment_status

SpecPoll == Init /\ [][PollNext]_vars

\* ------------------------------------------------------------------ execute_rollback from outside

\* The reason an operator passes to execute_rollback.
OperatorReason == [text |-> "Operator request"]

\* execute_rollback called by an operator while the coordinating task is
\* suspended in asyncio.sleep of a monitor loop: the whole call, made once.
operator_execute_rollback ==
    /\ status_report' = NoReport
    /\ UNCHANGED <<flight, running>>
    /\ pc = "sleep"
    /\ rollback_reason.text = "none"
    /\ rollback_reason' = OperatorReason
    /\ enter_phase(ROLLBACK)
    /\ \E outcome \in RoutingOutcomes, blue_healthy \in BOOLEAN :
          LET r == set_traffic_split(current_split, backend, 100, 0, outcome)
          IN  /\ current_split' = r.split
              /\ backend' = r.backend
              /\ split_calls' = Append(split_calls,
                    [split_call(100, 0, outcome, r) EXCEPT !.status = ROLLING_BACK])
              /\ IF r.ret # "true"
                 THEN /\ deployment_status' = ROLLING_BACK
                      /\ rollback_result' = "false"
                      /\ faults' = faults \cup {"revert"}
                      /\ UNCHANGED deployment_log
                 ELSE IF ~blue_healthy
                 THEN /\ deployment_status' = ROLLING_BACK
                      /\ rollback_result' = "false"
                      /\ faults' = faults \cup {"blue_unhealthy_after_revert"}
                      /\ UNCHANGED deployment_log
                 ELSE /\ deployment_log' = Append(deployment_log,
                             log_entry(now, ROLLBACK, "Rollback completed",
                                       [reason |-> OperatorReason,
                                        blue_health |-> "healthy",
                                        rollback_time_seconds |->
                                            now - deployment_start_time]))
                      /\ deployment_status' = ROLLED_BACK
                      /\ rollback_result' = "true"
                      /\ UNCHANGED faults
    /\ UNCHANGED <<pc, deployment_start_time, rollback_triggers, metrics_history,
                   alerts, now, start_time, decision, prev_decision, decision_time,
                   result, phase_method>>

\* A run of start_deployment during which an operator may call execute_rollback.
OpNext ==
    \/ Next
    \/ operator_execute_rollback

SpecOp == Init /\ [][OpNext]_vars

\* ------------------------------------------------------------------ exceptions

\* The reason the except branch of start_deployment passes to execute_rollback.
FailureReason == [text |-> "Deployment failure"]

\* start_deployment's except branch returning False without execute_rollback.
phase_raises_without_rollback ==
    /\ status_report' = NoReport
    /\ UNCHANGED <<flight, running>>
    /\ \/ pc = "preparation" /\ enter_phase(PREPARATION)
       \/ /\ pc = "monitor"
          /\ now - start_time < PhaseDuration(phase_method)
          /\ UNCHANGED <<current_phase, phase_trace>>
    /\ deployment_status' = FAILED
    /\ faults' = faults \cup {"exception"}
    /\ pc' = "returned"
    /\ result' = "false"
    /\ UNCHANGED <<deployment_start_time, deployment_log, current_split, backend,
                   rollback_triggers, metrics_history, alerts, now, start_time,
                   decision, prev_decision, decision_time, rollback_reason,
                   rollback_result, split_calls, phase_method>>

\* An exception escapes _execute_phase_preparation (after current_phase was
\* set) or the loop body of _monitor_phase: start_deployment's except branch sets
\* FAILED and calls execute_rollback.
phase_raises ==
    /\ status_report' = NoReport
    /\ UNCHANGED <<flight, running>>
    /\ \/ pc = "preparation" /\ enter_phase(PREPARATION)
       \/ /\ pc = "monitor"
          /\ now - start_time < PhaseDuration(phase_method)
          /\ UNCHANGED <<current_phase, phase_trace>>
    /\ deployment_status' = FAILED
    /\ rollback_reason' = FailureReason
    /\ faults' = faults \cup {"exception"}
    /\ pc' = "rollback"
    /\ UNCHANGED <<deployment_start_time, deployment_log, current_split, backend,
                   rollback_triggers, metrics_history, alerts, now, start_time,
                   decision, prev_decision, decision_time, rollback_result, result,
                   split_calls, phase_method>>

\* A run of start_deployment in which a phase may raise.
ExcNext ==
    \/ Next
    \/ phase_raises

SpecExc == Init /\ [][ExcNext]_vars

\* ------------------------------------------------------------------ TrafficManager alone

\* Percentages a caller passes to set_traffic_split.
DirectPercentages == {0, 20, 80, 100}

\* set_traffic_split called on the TrafficManager of a manager that has not
\* been started.
tm_set_traffic_split ==
    /\ status_report' = NoReport
    /\ UNCHANGED <<flight, running>>
    /\ pc = "constructed"
    /\ Len(split_calls) < MaxDirectCalls
    /\ \E blue_percentage \in DirectPercentages, green_percentage \in DirectPercentages,
          outcome \in RoutingOutcomes :
          LET r == set_traffic_split(current_split, backend,
                                     blue_percentage, green_percentage, outcome)
          IN  /\ current_split' = r.split
              /\ backend' = r.backend
              /\ split_calls' = Append(split_calls,
                    split_call(blue_percentage, green_percentage, outcome, r))
    /\ UNCHANGED <<pc, current_phase, deployment_status, deployment_start_time,
                   deployment_log, rollback_triggers, metrics_history, alerts, now,
                   start_time, decision, prev_decision, decision_time,
                   rollback_reason, rollback_result, result, phase_trace, faults,
                   phase_method>>

TMNext == tm_set_traffic_split

SpecTM == Init /\ [][TMNext]_vars

\* ------------------------------------------------------------------ set_traffic_split under the event loop

\* The awaits of lines 227 and 232 handing the event loop to other tasks.
Suspends_at_backend_awaits(point) == point \in {"asyncio.sleep", "haproxy", "nginx"}

\* Whether an await hands the event loop to other tasks. An await of a
\* coroutine runs it in the awaiting task; the loop is released only when
\* something down the chain waits on a future, and asyncio.sleep is the one
\* such place: _configure_haproxy_weights and _configure_nginx_upstream
\* contain no await.
Suspends(point) == point = "asyncio.sleep"

\* The task the loop goes on with when task t reaches the await named point.
after_await(t, point) == IF Suspends(point) THEN "none" ELSE t

\* The tasks inside set_traffic_split: called, not returned yet.
InFlight == {t \in FlightTasks : flight[t].pos # "outside"}

\* The splits each caller asks for: the five phase methods, and the revert
\* of execute_rollback.
FlightArguments(t) ==
    IF t = "start_deployment"
    THEN {PhaseSplit(p) : p \in ForwardPhases}
    ELSE {InitialSplit}

\* The call returns to its caller, which goes on to its next suspension:
\* asyncio.sleep in _monitor_phase, or the end of the task.
flight_return(t, outcome, r) ==
    /\ split_calls' = Append(split_calls,
          split_call(flight[t].blue, flight[t].green, outcome, r))
    /\ flight' = [flight EXCEPT ![t] = Outside]
    /\ running' = after_await(t, "asyncio.sleep")

\* A task the loop has resumed calls set_traffic_split and reaches the await
\* of _configure_haproxy_weights.
flight_call(t) ==
    /\ status_report' = NoReport
    /\ pc = "constructed"
    /\ flight[t].pos = "outside"
    /\ running = "none"
    /\ Len(split_calls) + Cardinality(InFlight) < MaxFlights
    /\ \E split \in FlightArguments(t) :
          /\ split.blue + split.green = 100
          /\ flight' = [flight EXCEPT ![t] =
                           [pos |-> "haproxy", blue |-> split.blue, green |-> split.green]]
    /\ running' = after_await(t, "haproxy")
    /\ UNCHANGED <<pc, current_phase, deployment_status, deployment_start_time,
                   deployment_log, current_split, backend, rollback_triggers,
                   metrics_history, alerts, now, start_time, decision, prev_decision,
                   decision_time, rollback_reason, rollback_result, result,
                   split_calls, phase_trace, faults, phase_method>>

\* _configure_haproxy_weights ends; the task reaches the await of
\* _configure_nginx_upstream, or the except branch.
flight_haproxy(t) ==
    /\ status_report' = NoReport
    /\ flight[t].pos = "haproxy"
    /\ running \in {t, "none"}
    /\ \/ /\ backend' = [backend EXCEPT !.haproxy =
                            configure_haproxy_weights(flight[t].blue, flight[t].green)]
          /\ flight' = [flight EXCEPT ![t].pos = "nginx"]
          /\ running' = after_await(t, "nginx")
          /\ UNCHANGED split_calls
       \/ /\ flight_return(t, "haproxy_error", [ret |-> "false", split |-> current_split])
          /\ UNCHANGED backend
    /\ UNCHANGED <<pc, current_phase, deployment_status, deployment_start_time,
                   deployment_log, current_split, rollback_triggers,
                   metrics_history, alerts, now, start_time, decision, prev_decision,
                   decision_time, rollback_reason, rollback_result, result,
                   phase_trace, faults, phase_method>>

\* _configure_nginx_upstream ends; current_split is assigned and True
\* returned, or the except branch returns False.
flight_nginx(t) ==
    /\ status_report' = NoReport
    /\ flight[t].pos = "nginx"
    /\ running \in {t, "none"}
    /\ \/ /\ backend' = [backend EXCEPT !.nginx =
                            configure_nginx_upstream(flight[t].blue, flight[t].green)]
          /\ current_split' = [blue |-> flight[t].blue, green |-> flight[t].green]
          /\ flight_return(t, "ok", [ret |-> "true", split |-> current_split'])
       \/ /\ flight_return(t, "nginx_error", [ret |-> "false", split |-> current_split])
          /\ UNCHANGED <<backend, current_split>>
    /\ UNCHANGED <<pc, current_phase, deployment_status, deployment_start_time,
                   deployment_log, rollback_triggers,
                   metrics_history, alerts, now, start_time, decision, prev_decision,
                   decision_time, rollback_reason, rollback_result, result,
                   phase_trace, faults, phase_method>>

FlightNext ==
    \E t \in FlightTasks : flight_call(t) \/ flight_haproxy(t) \/ flight_nginx(t)

\* The two callers sharing one TrafficManager under one event loop.
SpecFlight == Init /\ [][FlightNext]_vars

\* ------------------------------------------------------------------ DeploymentMonitor alone

\* A trigger with enabled=False.
Disabled(trigger) == [trigger EXCEPT !.enabled = FALSE]

\* Trigger lists a DeploymentMonitor can be constructed with.
TriggerConfigs ==
    { <<RollbackTrigger("error_rate", 10, 300, "gt")>>,
      <<RollbackTrigger("success_rate", 90, 120, "lt")>>,
      <<RollbackTrigger("error.rate", 15, 120, "eq")>>,
      <<Disabled(RollbackTrigger("error_rate", 10, 300, "gt")),
        RollbackTrigger("success_rate", 90, 120, "lt")>>,
      <<RollbackTrigger("success_rate", 90, 120, "lt"),
        RollbackTrigger("error_rate", 10, 300, "gt")>> }

\* Trigger lists whose triggers use a comparison _check_threshold_violation does
\* not know, or name a metric DeploymentMetrics does not have.
UnknownTriggerConfigs ==
    { <<RollbackTrigger("error_rate", 10, 300, "ge"),
        RollbackTrigger("latency_p99", 100, 120, "gt")>>,
      <<RollbackTrigger("latency_p99", 100, 120, "gt"),
        RollbackTrigger("success_rate", 90, 120, "lt")>> }

\* Time between two calls on the monitor.
MonClockSteps == {DefaultTriggers[3].duration_seconds}

\* DeploymentMonitor.__init__ with one of the trigger lists of configs.
MonInitWith(configs) ==
    /\ pc = "constructed"
    /\ current_phase = PREPARATION
    /\ deployment_status = PENDING
    /\ deployment_start_time = None
    /\ deployment_log = <<>>
    /\ current_split = InitialSplit
    /\ backend = [haproxy |-> NoWeights, nginx |-> NoWeights]
    /\ rollback_triggers \in configs
    /\ metrics_history = <<>>
    /\ alerts = <<>>
    /\ now = 0
    /\ start_time = -1
    /\ decision = NoDecision
    /\ prev_decision = NoDecision
    /\ decision_time = -1
    /\ rollback_reason = [text |-> "none"]
    /\ rollback_result = "none"
    /\ result = "none"
    /\ split_calls = <<>>
    /\ phase_trace = <<PREPARATION>>
    /\ faults = {}
    /\ phase_method = PREPARATION
    /\ status_report = NoReport
    /\ flight = [t \in FlightTasks |-> Outside]
    /\ running = "none"

MonInit == MonInitWith(TriggerConfigs)

\* record_metrics called with a snapshot taken now.
mon_record ==
    /\ status_report' = NoReport
    /\ UNCHANGED <<flight, running>>
    /\ Len(metrics_history) < MaxMonHistory
    /\ \E sample \in MetricSamples :
          metrics_history' = record_metrics(metrics_history,
              collect_deployment_metrics(sample, current_phase, current_split.green, now))
    /\ decision' = NoDecision
    /\ prev_decision' = NoDecision
    /\ decision_time' = -1
    /\ UNCHANGED <<controller_vars, rollback_triggers, now>>

\* should_rollback called now.
mon_evaluate ==
    /\ status_report' = NoReport
    /\ UNCHANGED <<flight, running>>
    /\ decision' = should_rollback(metrics_history, rollback_triggers, now)
    /\ prev_decision' = decision
    /\ decision_time' = now
    /\ UNCHANGED <<controller_vars, rollback_triggers, metrics_history, now>>

\* Time passes between two calls.
mon_advance ==
    /\ status_report' = NoReport
    /\ UNCHANGED <<flight, running>>
    /\ now < MaxMonClock
    /\ \E d \in MonClockSteps : now' = now + d
    /\ UNCHANGED <<controller_vars, rollback_triggers, metrics_history,
                   decision, prev_decision, decision_time>>

MonNext ==
    \/ mon_record
    \/ mon_evaluate
    \/ mon_advance

SpecMon == MonInit /\ [][MonNext]_vars

\* ------------------------------------------------------------------ the history at its capacity

\* A sample within every threshold.
HealthySample ==
    [response_time_p95 |-> 200, error_rate |-> 2, throughput |-> 150, success_rate |-> 99]

\* record_metrics called once a second, number `now` being the call's number;
\* the snapshots recorded next to the capacity carry any sample, the earlier
\* ones the healthy one.
cap_record ==
    /\ status_report' = NoReport
    /\ UNCHANGED <<flight, running>>
    /\ pc = "constructed"
    /\ now < MaxRecorded
    /\ \E sample \in MetricSamples :
          /\ Len(metrics_history) + 1 < HistoryCap => sample = HealthySample
          /\ metrics_history' = record_metrics(metrics_history,
                collect_deployment_metrics(sample, current_phase, current_split.green, now))
    /\ now' = now + 1
    /\ UNCHANGED <<controller_vars, rollback_triggers, decision, prev_decision,
                   decision_time>>

CapNext == cap_record

SpecCap == Init /\ [][CapNext]_vars

MonInitUnknown == MonInitWith(UnknownTriggerConfigs)

SpecMonUnknown == MonInitUnknown /\ [][MonNext]_vars

\* ------------------------------------------------------------------ properties

\* The percentages the controller passes to set_traffic_split.
Percentages == {0, 5, 20, 50, 80, 95, 100}

\* A should_rollback call has returned d.
Evaluated(d) == "should_rollback" \in DOMAIN d

\* start_deployment has returned.
Returned == pc = "returned"

\* C1: in every reachable state of a run the recorded split sums to 100, and a
\* set_traffic_split call made there with percentages that do not sum to 100
\* (whatever the targets would answer) leaves the recorded split as it is.
C1_SplitSumsTo100 ==
    /\ current_split.blue + current_split.green = 100
    /\ \A b \in Percentages, g \in Percentages, o \in RoutingOutcomes :
          b + g # 100 =>
             set_traffic_split(current_split, backend, b, g, o).split = current_split

\* C1 witness: a forward split of a later phase is in force after the run has
\* returned because the next set_traffic_split call failed.
C1_Witness ==
    /\ Returned
    /\ current_split = [blue |-> 20, green |-> 80]
    /\ split_calls # <<>>
    /\ split_calls[Len(split_calls)].ret = "false"

C2_RollbackFrom(p) ==
    /\ Len(phase_trace) >= 2
    /\ phase_trace[Len(phase_trace)] = ROLLBACK
    /\ phase_trace[Len(phase_trace) - 1] = p

\* C3: a run in which no health check, row count or routing call failed and no
\* tick decided to roll back returns true with status Completed, phase Complete
\* and split (blue 0, green 100).
C3_HappyPathCompletes ==
    (/\ Returned
     /\ faults = {}
     /\ ROLLBACK \notin { phase_trace[i] : i \in 1..Len(phase_trace) })
    => /\ result = "true"
       /\ deployment_status = COMPLETED
       /\ current_phase = PHASE_5_COMPLETE
       /\ current_split = [blue |-> 0, green |-> 100]

\* C3 witness: a run has returned true.
C3_Witness == Returned /\ result = "true" /\ Len(metrics_history) > 5

\* The snapshots of the history taken in [t - duration, t].
SnapshotsIn(duration, t) ==
    { i \in 1..Len(metrics_history) :
        /\ metrics_history[i].timestamp >= t - duration
        /\ metrics_history[i].timestamp <= t }

\* The last tick of the run was one of the Limited phase, and at that tick at
\* least 80% of the snapshots of the last 300 seconds had error_rate > 10.
ErrorRateTriggerInLimited ==
    /\ metrics_history # <<>>
    /\ LET last == metrics_history[Len(metrics_history)]
           window == SnapshotsIn(300, last.timestamp)
           violating == { i \in window : metrics_history[i].error_rate > 10 }
       IN  /\ last.phase = PHASE_2_LIMITED
           /\ 5 * Cardinality(violating) >= 4 * Cardinality(window)

\* The log holds an entry of a completed rollback.
RollbackLogged(i) ==
    /\ i \in 1..Len(deployment_log)
    /\ deployment_log[i].event = "Rollback completed"

\* C4: when the error_rate trigger reaches its ratio during Limited and the
\* revert call and the health check of blue succeed, the run goes
\* Limited -> Rollback, ends RolledBack with split (blue 100, green 0), and the
\* log names the triggering metric and carries the measured violation ratio.
C4_LimitedRollbackLogged ==
    (/\ Returned
     /\ ErrorRateTriggerInLimited
     /\ faults \cap {"revert", "blue_unhealthy_after_revert"} = {})
    => /\ phase_trace = <<PREPARATION, PHASE_1_VALIDATION, PHASE_2_LIMITED, ROLLBACK>>
       /\ deployment_status = ROLLED_BACK
       /\ current_split = [blue |-> 100, green |-> 0]
       /\ \E i \in 1..Len(deployment_log) :
             /\ RollbackLogged(i)
             /\ deployment_log[i].details.reason.metric_name = "error_rate"
             /\ \/ "violation_percentage" \in DOMAIN deployment_log[i].details
                \/ "violation_percentage" \in DOMAIN deployment_log[i].details.reason

\* C5: when Preparation fails, the run ends with status Failed, no
\* set_traffic_split call was made, the split is (blue 100, green 0) and the
\* phase never became Rollback.
C5_PreparationFailure ==
    (/\ Returned
     /\ faults \cap {"green_unhealthy", "blue_unhealthy", "row_count_mismatch"} # {})
    => /\ deployment_status = FAILED
       /\ split_calls = <<>>
       /\ current_split = [blue |-> 100, green |-> 0]
       /\ phase_trace = <<PREPARATION>>

\* C6: when the revert call of execute_rollback fails, execute_rollback reports
\* failure, the status stays RollingBack, and a critical alert is recorded for
\* the run (delivered to the alert callbacks or entered in the deployment log
\* during the Rollback phase).
C6_RevertFailureEscalated ==
    (Returned /\ "revert" \in faults)
    => /\ rollback_result = "false"
       /\ deployment_status = ROLLING_BACK
       /\ \/ alerts # <<>>
          \/ \E i \in 1..Len(deployment_log) : deployment_log[i].phase = ROLLBACK

\* C7 as claimed: whenever start_deployment has returned, the status is
\* Completed or RolledBack.
C7_ReturnsCompletedOrRolledBack ==
    Returned => deployment_status \in {COMPLETED, ROLLED_BACK}

\* C7 amended: whenever start_deployment has returned, it returned true with
\* status Completed, or false with status RolledBack (the rollback succeeded),
\* RollingBack (the rollback's revert call or health check failed) or still
\* InProgress (Preparation or a forward routing call failed, no rollback made).
C7_StatusOnReturn ==
    Returned =>
       \/ result = "true" /\ deployment_status = COMPLETED /\ rollback_result = "none"
       \/ result = "false" /\ deployment_status = ROLLED_BACK /\ rollback_result = "true"
       \/ result = "false" /\ deployment_status = ROLLING_BACK /\ rollback_result = "false"
       \/ /\ result = "false" /\ deployment_status = IN_PROGRESS /\ rollback_result = "none"
          /\ current_phase # ROLLBACK
          /\ faults \cap {"green_unhealthy", "blue_unhealthy", "row_count_mismatch",
                          "routing"} # {}

\* C7 witness: start_deployment has returned with the rollback unresolved.
C7_Witness ==
    Returned /\ deployment_status = ROLLING_BACK /\ current_split.green > 0

\* The snapshots a trigger's window holds when the clock reads t.
TriggerWindow(trigger, t) == SnapshotsIn(trigger.duration_seconds, t)

\* The snapshots of that window that violate the trigger's threshold.
TriggerViolations(trigger, t) ==
    { i \in TriggerWindow(trigger, t) : is_violation(metrics_history[i], trigger) }

\* C8: for a single enabled trigger whose window holds n >= 1 snapshots of which
\* v violate the threshold, should_rollback decides to roll back iff v/n >= 0.80.
C8_RatioBoundary ==
    (/\ Evaluated(decision)
     /\ Len(rollback_triggers) = 1
     /\ rollback_triggers[1].enabled
     /\ TriggerWindow(rollback_triggers[1], decision_time) # {})
    => LET n == Cardinality(TriggerWindow(rollback_triggers[1], decision_time))
           v == Cardinality(TriggerViolations(rollback_triggers[1], decision_time))
       IN  decision.should_rollback <=> 5 * v >= 4 * n

\* C8 witness: five snapshots in the window, exactly four violating, and the
\* decision is to roll back.
C8_Witness ==
    /\ Evaluated(decision)
    /\ Len(rollback_triggers) = 1
    /\ rollback_triggers[1].enabled
    /\ Cardinality(TriggerWindow(rollback_triggers[1], decision_time)) = 5
    /\ Cardinality(TriggerViolations(rollback_triggers[1], decision_time)) = 4
    /\ decision.should_rollback

\* C9: should_rollback never names a trigger whose window holds no retained
\* snapshot, and with no trigger window holding a snapshot (in particular with
\* an empty history) it answers continue.
C9_NoDataNoRollback ==
    Evaluated(decision) =>
       /\ decision.should_rollback =>
             TriggerWindow(rollback_triggers[decision.trigger], decision_time) # {}
       /\ (\A k \in 1..Len(rollback_triggers) :
              TriggerWindow(rollback_triggers[k], decision_time) = {})
          => ~decision.should_rollback

\* C9 witness: should_rollback was called with a history whose snapshots all
\* violate the threshold and all lie before the window of every trigger.
C9_Witness ==
    /\ Evaluated(decision)
    /\ metrics_history # <<>>
    /\ \A k \in 1..Len(rollback_triggers) :
          /\ TriggerWindow(rollback_triggers[k], decision_time) = {}
          /\ \A i \in 1..Len(metrics_history) :
                is_violation(metrics_history[i], rollback_triggers[k])

\* C10 as claimed: two should_rollback calls made on the same history and the
\* same triggers return the same decision, whenever each of them is made.
C10_DecisionIndependentOfTime ==
    (Evaluated(decision) /\ Evaluated(prev_decision)) => decision = prev_decision

\* The times, from the last snapshot on, at which a call can be made.
EvaluationTimes ==
    { t \in 0..(MaxMonClock + 2 * monitoring_interval) :
        /\ t % monitoring_interval = 0
        /\ \A i \in 1..Len(metrics_history) : metrics_history[i].timestamp <= t }

\* Every enabled trigger's window holds the same snapshots at t1 as at t2.
SameWindows(t1, t2) ==
    \A k \in 1..Len(rollback_triggers) :
       rollback_triggers[k].enabled =>
          TriggerWindow(rollback_triggers[k], t1) = TriggerWindow(rollback_triggers[k], t2)

\* C10 amended: the decision depends on the time of the call only through the
\* windows: a call on the same history and triggers, made at a time at which
\* every enabled trigger's window holds the same snapshots, returns the same
\* decision.
C10_DecisionDependsOnWindows ==
    Evaluated(decision) =>
       \A t \in EvaluationTimes :
          SameWindows(t, decision_time) =>
             should_rollback(metrics_history, rollback_triggers, t) = decision

\* C10 witness: a rollback decision that a call at another time, with the same
\* windows, repeats, after an earlier call had been made on the same history.
C10_Witness ==
    /\ Evaluated(decision)
    /\ Evaluated(prev_decision)
    /\ decision.should_rollback
    /\ \E t \in EvaluationTimes : t # decision_time /\ SameWindows(t, decision_time)

\* Two set_traffic_split calls made one after the other with the same
\* percentages: the first is call i.
RepeatedCall(i) ==
    /\ i \in 1..(Len(split_calls) - 1)
    /\ split_calls[i + 1].blue = split_calls[i].blue
    /\ split_calls[i + 1].green = split_calls[i].green

\* C11: when set_traffic_split is called twice in a row with the same
\* percentages, summing to 100, and the targets accept both calls, both calls
\* return True and the recorded split after the second call equals the split
\* after the first.
C11_RepeatedCallIdempotent ==
    \A i \in 1..Len(split_calls) :
       (/\ RepeatedCall(i)
        /\ split_calls[i].blue + split_calls[i].green = 100
        /\ split_calls[i].outcome = "ok"
        /\ split_calls[i + 1].outcome = "ok")
       => /\ split_calls[i].ret = "true"
          /\ split_calls[i + 1].ret = "true"
          /\ split_calls[i + 1].split = split_calls[i].split
          /\ split_calls[i + 1].split =
                [blue |-> split_calls[i].blue, green |-> split_calls[i].green]

\* C11 witness: a split other than the constructor's was set twice in a row and
\* both calls returned True.
C11_Witness ==
    \E i \in 1..Len(split_calls) :
       /\ RepeatedCall(i)
       /\ split_calls[i].green > 0
       /\ split_calls[i].ret = "true"
       /\ split_calls[i + 1].ret = "true"
       /\ current_split = split_calls[i].split

\* C12: after a set_traffic_split call has returned, HAProxy and Nginx carry
\* the same weights: both those of the call, or both those they had before.
C12_AllOrNothing == backend.haproxy = backend.nginx

\* C13: when a forward phase's set_traffic_split call returned False, the run
\* has entered the Rollback phase and attempted the revert to (100, 0) before
\* start_deployment returned.
C13_ForwardFailureRollsBack ==
    (Returned /\ "routing" \in faults)
    => /\ current_phase = ROLLBACK
       /\ \E i \in 1..Len(split_calls) :
             /\ split_calls[i].status = ROLLING_BACK
             /\ split_calls[i].blue = 100
             /\ split_calls[i].green = 0

\* The revert calls execute_rollback has made.
RevertCalls == { i \in 1..Len(split_calls) : split_calls[i].status = ROLLING_BACK }

\* C14: when the revert call of execute_rollback has failed, the run does not
\* return before the revert was attempted again.
C14_RevertRetried ==
    (Returned /\ "revert" \in faults) => Cardinality(RevertCalls) >= 2

\* A step that leaves the status, the phase and the traffic split as they are
\* when it is taken with status Completed or RolledBack.
KeepsTerminalState ==
    deployment_status \in {COMPLETED, ROLLED_BACK}
    => /\ deployment_status' = deployment_status
       /\ current_phase' = current_phase
       /\ current_split' = current_split

C16_ReasonInReport ==
    rollback_result # "none"
    => \E i \in 1..Len(get_deployment_report.deployment_log) :
          /\ get_deployment_report.deployment_log[i].event = "Rollback completed"
          /\ get_deployment_report.deployment_log[i].details.reason = rollback_reason

\* A step that, when it is a get_deployment_status call, changes no state of
\* the controller and returns the values the controller holds.
PollReadsState ==
    status_report'.polled
    => /\ UNCHANGED <<pc, deployment_status, current_phase, current_split, backend,
                      metrics_history, deployment_log, deployment_start_time>>
       /\ status_report'.value.status = deployment_status
       /\ status_report'.value.current_phase = current_phase
       /\ status_report'.value.traffic_split = current_split
       /\ status_report'.value.metrics_count = Len(metrics_history)
       /\ status_report'.value.log_entries = Len(deployment_log)

\* C17: a get_deployment_status call, made at any point of a run, changes no
\* state of the controller and returns the current status, phase, split,
\* history length and log length.
C17_StatusPollReadsState == [][PollReadsState]_vars

\* C17 witness: a poll made between the revert call and the health check of a
\* rollback, after traffic had been shifted, reports RollingBack.
C17_Witness ==
    /\ status_report.polled
    /\ status_report.value.status = ROLLING_BACK
    /\ status_report.value.current_phase = ROLLBACK
    /\ status_report.value.metrics_count > 0
    /\ pc = "verify"

\* Trigger k of the configured list is enabled, its window at the time of the
\* last should_rollback call holds a snapshot, and at least 80% of the window
\* violates its threshold.
ReachesRatio(k) ==
    /\ rollback_triggers[k].enabled
    /\ TriggerWindow(rollback_triggers[k], decision_time) # {}
    /\ 5 * Cardinality(TriggerViolations(rollback_triggers[k], decision_time))
          >= 4 * Cardinality(TriggerWindow(rollback_triggers[k], decision_time))

\* C18: a rollback decision names the earliest trigger of the configured list
\* that is enabled and reaches the ratio, and should_rollback answers continue
\* only when no enabled trigger reaches it; a disabled trigger is never named.
C18_FirstEnabledTriggerWins ==
    Evaluated(decision) =>
       IF decision.should_rollback
       THEN /\ decision.trigger \in 1..Len(rollback_triggers)
            /\ ReachesRatio(decision.trigger)
            /\ \A j \in 1..(decision.trigger - 1) : ~ReachesRatio(j)
            /\ decision.reason = trigger_reason(rollback_triggers[decision.trigger])
       ELSE \A k \in 1..Len(rollback_triggers) : ~ReachesRatio(k)

\* C18 witness: both triggers of a list reach the ratio and the decision names
\* the first.
C18_Witness ==
    /\ Evaluated(decision)
    /\ Len(rollback_triggers) = 2
    /\ ReachesRatio(1)
    /\ ReachesRatio(2)
    /\ decision.should_rollback
    /\ decision.trigger = 1

\* C19: once execute_rollback has returned, the revert to (100, 0) was applied,
\* the log holds the entry of the rollback and the status is RolledBack.
C19_AllStepsPerformed ==
    rollback_result # "none"
    => /\ \E i \in RevertCalls :
             /\ split_calls[i].ret = "true"
             /\ split_calls[i].split = [blue |-> 100, green |-> 0]
       /\ \E i \in 1..Len(deployment_log) :
             /\ RollbackLogged(i)
             /\ "reason" \in DOMAIN deployment_log[i].details
             /\ "rollback_time_seconds" \in DOMAIN deployment_log[i].details
             /\ "blue_health" \in DOMAIN deployment_log[i].details
       /\ deployment_status = ROLLED_BACK

\* C20: no set_traffic_split call sending traffic to green is applied while
\* the status is RollingBack or RolledBack.
C20_NoForwardSplitDuringRollback ==
    \A i \in 1..Len(split_calls) :
       split_calls[i].status \in {ROLLING_BACK, ROLLED_BACK}
       => /\ split_calls[i].blue = 100
          /\ split_calls[i].green = 0

\* should_rollback has answered rollback on the last tick.
RollbackDecided == Evaluated(decision) /\ decision.should_rollback

\* A step taken after a rollback decision: the clock has not moved, no snapshot
\* is added, and a traffic call made by it is the revert.
ShortCircuitsToRevert ==
    RollbackDecided
    => /\ pc \in {"rollback", "revert", "verify", "returned"}
       /\ metrics_history' = metrics_history
       /\ now' = now
       /\ \/ split_calls' = split_calls
          \/ /\ Len(split_calls') = Len(split_calls) + 1
             /\ SubSeq(split_calls', 1, Len(split_calls)) = split_calls
             /\ split_calls'[Len(split_calls')].blue = 100
             /\ split_calls'[Len(split_calls')].green = 0

\* C21: after a tick on which should_rollback answers rollback the run does not
\* sleep or sample again and makes no forward set_traffic_split call: its next
\* traffic call is set_traffic_split(100, 0).
C21_RollbackShortCircuits == [][ShortCircuitsToRevert]_vars

\* C21 witness: the revert has been made on the tick of the decision, with part
\* of the phase's duration still to run.
C21_Witness ==
    /\ RollbackDecided
    /\ pc = "verify"
    /\ now = decision_time
    /\ now - start_time < PhaseDuration(phase_method)
    /\ split_calls[Len(split_calls)].blue = 100
    /\ split_calls[Len(split_calls)].green = 0

\* A set_traffic_split call that returned True.
IsApplied(call) == call.ret = "true"

\* The set_traffic_split calls of the run that returned True, in order.
AppliedSplits == SelectSeq(split_calls, IsApplied)

\* The splits of the forward phases, in the order of start_deployment.
ForwardSplitSeq == [k \in 1..5 |-> PhaseSplit(DeploymentPhase[k + 1])]

\* C22: the splits applied in a run are a prefix of (95,5), (80,20), (50,50),
\* (20,80), (0,100), optionally followed by (100,0); a phase method is entered
\* only when the previous phase's monitor loop has run its duration without a
\* rollback decision; every snapshot carries the percentage of its phase, and
\* is taken while that split is in force.
C22_PhasesSequential ==
    /\ Len(AppliedSplits) <= 6
    /\ \A k \in 1..Len(AppliedSplits) :
          \/ /\ k <= 5
             /\ AppliedSplits[k].split = ForwardSplitSeq[k]
          \/ /\ k = Len(AppliedSplits)
             /\ AppliedSplits[k].split = [blue |-> 100, green |-> 0]
    /\ (pc = "phase" /\ phase_method \in ForwardPhases)
       => /\ now - start_time >= PhaseDuration(phase_method)
          /\ ~RollbackDecided
          /\ \E i \in 1..Len(metrics_history) : metrics_history[i].phase = phase_method
    /\ \A i \in 1..Len(metrics_history) :
          /\ metrics_history[i].phase \in ForwardPhases
          /\ metrics_history[i].traffic_percentage = PhaseSplit(metrics_history[i].phase).green
    /\ pc \in {"sleep", "rollback"}
       => /\ current_split = PhaseSplit(current_phase)
          /\ metrics_history[Len(metrics_history)].phase = current_phase
          /\ metrics_history[Len(metrics_history)].timestamp = now

\* C22 witness: the five forward splits were applied in order and then the revert.
C22_Witness ==
    /\ Len(AppliedSplits) = 6
    /\ AppliedSplits[5].split = [blue |-> 0, green |-> 100]
    /\ AppliedSplits[6].split = [blue |-> 100, green |-> 0]

\* The split recorded before call i was made.
SplitBefore(i) == IF i = 1 THEN InitialSplit ELSE split_calls[i - 1].split

\* C26: a set_traffic_split call whose percentages do not sum to 100 raises, one
\* whose target fails returns False, and in both cases the recorded split,
\* which get_current_split returns, is the one from before the call.
C26_FailedCallKeepsSplit ==
    /\ \A i \in 1..Len(split_calls) :
          /\ split_calls[i].blue + split_calls[i].green # 100
             => /\ split_calls[i].ret = "raise"
                /\ split_calls[i].split = SplitBefore(i)
          /\ (split_calls[i].blue + split_calls[i].green = 100
              /\ split_calls[i].outcome # "ok")
             => /\ split_calls[i].ret = "false"
                /\ split_calls[i].split = SplitBefore(i)
    /\ split_calls # <<>> => get_current_split = split_calls[Len(split_calls)].split

\* C26 witness: after a call that moved traffic to green, a call for another
\* split failed at a target and the recorded split is still the first one.
C26_Witness ==
    /\ Len(split_calls) = 2
    /\ split_calls[1].ret = "true"
    /\ split_calls[1].green > 0
    /\ split_calls[2].ret = "false"
    /\ split_calls[2].blue # split_calls[1].blue
    /\ get_current_split = [blue |-> split_calls[1].blue, green |-> split_calls[1].green]

\* C27: when the revert call of execute_rollback succeeded and the health check
\* of blue did not, execute_rollback returned False, the split is (100, 0), the
\* status is RollingBack and the log holds no entry of the rollback.
C27_UnhealthyBlueLeavesRollingBack ==
    "blue_unhealthy_after_revert" \in faults
    => /\ rollback_result = "false"
       /\ current_split = [blue |-> 100, green |-> 0]
       /\ deployment_status = ROLLING_BACK
       /\ \A i \in 1..Len(deployment_log) :
             /\ ~RollbackLogged(i)
             /\ deployment_log[i].phase # ROLLBACK

\* C27 witness: a run that had reached the Limited phase returned after such a
\* rollback.
C27_Witness ==
    /\ Returned
    /\ "blue_unhealthy_after_revert" \in faults
    /\ PHASE_2_LIMITED \in { phase_trace[i] : i \in 1..Len(phase_trace) }
    /\ deployment_status = ROLLING_BACK

\* A step keeps every retained snapshot, in order, while the history is below
\* its capacity; and a rollback decision has counted every retained snapshot of
\* the trigger's window, whatever phase it was recorded in.
KeepsHistory ==
    /\ Len(metrics_history) < HistoryCap
       => /\ Len(metrics_history') >= Len(metrics_history)
          /\ SubSeq(metrics_history', 1, Len(metrics_history)) = metrics_history
    /\ RollbackDecided
       => /\ decision.violation_percentage.samples =
                Cardinality(TriggerWindow(rollback_triggers[decision.trigger],
                                          decision_time))
          /\ decision.violation_percentage.violations =
                Cardinality(TriggerViolations(rollback_triggers[decision.trigger],
                                              decision_time))

\* C28: no step of a run removes a snapshot from the history below its
\* capacity, and a trigger evaluated on a tick counts every retained snapshot
\* of its window, those of earlier phases included.
C28_HistoryKeptAcrossPhases == [][KeepsHistory]_vars

\* C28 witness: a rollback decision taken in one phase over a window that holds
\* a snapshot recorded in an earlier phase.
C28_Witness ==
    /\ RollbackDecided
    /\ \E i \in TriggerWindow(rollback_triggers[decision.trigger], decision_time) :
          metrics_history[i].phase # metrics_history[Len(metrics_history)].phase

\* A trigger that names a metric no retained snapshot carries, or a comparison
\* other than gt, lt and eq.
Unfireable(trigger) ==
    \/ trigger.comparison \notin {"gt", "lt", "eq"}
    \/ \A i \in 1..Len(metrics_history) :
          attribute_name(trigger.metric_name) \notin DOMAIN metrics_history[i]

\* C29: should_rollback never names a trigger whose metric the snapshots do not
\* carry or whose comparison is not gt, lt or eq, however many snapshots its
\* window holds and whatever their values; with only such triggers configured
\* it answers continue.
C29_UnknownMetricOrComparisonNeverFires ==
    Evaluated(decision) =>
       /\ decision.should_rollback => ~Unfireable(rollback_triggers[decision.trigger])
       /\ (\A k \in 1..Len(rollback_triggers) : Unfireable(rollback_triggers[k]))
          => ~decision.should_rollback

\* C29 witness: should_rollback answered continue with two such triggers
\* configured, both windows holding snapshots and every snapshot of the first
\* window at or above the first trigger's threshold.
C29_Witness ==
    /\ Evaluated(decision)
    /\ ~decision.should_rollback
    /\ Len(rollback_triggers) = 2
    /\ \A k \in 1..2 :
          /\ rollback_triggers[k].enabled
          /\ Unfireable(rollback_triggers[k])
          /\ TriggerWindow(rollback_triggers[k], decision_time) # {}
    /\ Cardinality(TriggerWindow(rollback_triggers[1], decision_time)) >= 2
    /\ \A i \in TriggerWindow(rollback_triggers[1], decision_time) :
          metrics_history[i].error_rate > rollback_triggers[1].threshold

\* C24: after n record_metrics calls, the k-th of them made at time k - 1, the
\* history holds min(n, 1000) snapshots and they are the last min(n, 1000)
\* recorded, oldest first.
C24_HistoryIsLastThousand ==
    /\ Len(metrics_history) <= 1000
    /\ Len(metrics_history) = IF now <= 1000 THEN now ELSE 1000
    /\ \A i \in 1..Len(metrics_history) :
          metrics_history[i].timestamp = now - Len(metrics_history) + i - 1

\* C24 witness: more than 1000 snapshots were recorded and the oldest retained
\* one is not the first recorded.
C24_Witness ==
    /\ now > 1000
    /\ Len(metrics_history) = 1000
    /\ metrics_history[1].timestamp = now - 1000
    /\ metrics_history[1000].error_rate > 10

\* C25: when an exception has escaped a phase, start_deployment returns False
\* with the phase Rollback and the status RolledBack or RollingBack; the status
\* Failed is held only until execute_rollback is entered and is never the
\* status after start_deployment has returned.
C25_ExceptionLeadsToRollback ==
    /\ (Returned /\ "exception" \in faults)
       => /\ result = "false"
          /\ rollback_result # "none"
          /\ rollback_reason = FailureReason
          /\ current_phase = ROLLBACK
          /\ deployment_status \in {ROLLED_BACK, ROLLING_BACK}
    /\ Returned => deployment_status # FAILED
    /\ deployment_status = FAILED => pc = "rollback"

\* C25 witness: an exception escaped the monitor loop of a forward phase and
\* the rollback that followed completed.
C25_Witness ==
    /\ Returned
    /\ "exception" \in faults
    /\ deployment_status = ROLLED_BACK
    /\ metrics_history # <<>>
    /\ current_split = [blue |-> 100, green |-> 0]

\* The entries of Rollback in the trace of phases.
RollbacksEntered == { i \in 1..Len(phase_trace) : phase_trace[i] = ROLLBACK }

\* C30: a start_deployment call that has been made returns, and no run enters
\* Rollback or makes the revert call more than once.
C30_StartDeploymentReturns ==
    /\ (pc # "constructed") ~> Returned
    /\ [](Cardinality(RollbacksEntered) <= 1 /\ Cardinality(RevertCalls) <= 1)

\* C30 witness: a run that went through every forward phase, rolled back in the
\* last one and returned.
C30_Witness ==
    /\ Returned
    /\ Cardinality(RollbacksEntered) = 1
    /\ Cardinality(RevertCalls) = 1
    /\ PHASE_5_COMPLETE \in { phase_trace[i] : i \in 1..Len(phase_trace) }

\* C23: no two set_traffic_split calls are in flight at once on the one
\* TrafficManager. With the task of start_deployment and an execute_rollback
\* invoked by an operator taking turns at the points where a task gives up the
\* event loop, at most one of them is inside set_traffic_split in any state;
\* and a task enters set_traffic_split only when no call is in flight.
StartsAlone ==
    \A t \in FlightTasks :
        (flight[t].pos = "outside" /\ flight'[t].pos # "outside") => InFlight = {}

C23_AtMostOneInFlight == Cardinality(InFlight) <= 1

C23_CallStartsAfterReturn == [][StartsAlone]_vars

\* Both tasks have called: the revert of execute_rollback was made between two
\* forward calls of start_deployment, while that task was in asyncio.sleep.
C23_Witness ==
    /\ Len(split_calls) = 2
    /\ split_calls[1].green = 5
    /\ split_calls[2].blue = 100
    /\ flight["start_deployment"].pos = "nginx"
    /\ flight["start_deployment"].green = 20

====
